---- MODULE Spec2Model ----
(***************************************************************************)
(* Negotiation, listing lifecycle and username history of the unlisted-    *)
(* share marketplace backend, as implemented by the Express routes over    *)
(* the Mongoose models.  Every action is one HTTP request handled to       *)
(* completion; `last` is the response the handler sent.  SpecC also runs   *)
(* handlers one await at a time, so that requests overlap.                 *)
(***************************************************************************)
EXTENDS Integers, Sequences, FiniteSets, TLC

\* ------------------------------------------------------------------ bounds
MaxListings == 1      \* Listing documents ever created
MaxBids == 2          \* Bid subdocuments ever created
MaxRounds == 2        \* counter entries of one Bid
MaxNotifs == 3        \* Notification documents ever stored
MaxUsers == 2         \* User documents ever created
MaxClock == 2         \* hours the clock runs past a multiple of the listing lifetime
MaxRequests == 2      \* requests that overlap with one another
MaxPage == 2          \* Listing documents of a marketplace page

\* --------------------------------------------------------- program constants
BoostWindow == 24     \* hours a boost lasts
ListingTTL == 720     \* hours until a listing expires (30 days)

\* ------------------------------------------------------------- value domains
Users == {"u1", "adm"}
Role(u) == IF u = "adm" THEN "admin" ELSE "user"
Companies == {"c1"}
NoCompany == "c0"
ListingIds == 1..MaxListings
BidIds == 1..MaxBids
NoQty == 0            \* request body without a (truthy) quantity
NoPrice == 0          \* request body without a price
Requests == 1..MaxRequests
Idle == [pc |-> "idle"]

\* request bodies the requests are drawn from
CreatePrices == {1}
CreateQtys == {1}
PlacePrices == {1}
PlaceQtys == {1}
CounterPrices == {2}
OverlapPrices == {2, 3}   \* counter prices of requests that overlap
CounterQtys == {NoQty, 2}
UpdatePrices == {NoPrice, 2}
UpdateQtys == {NoQty}
StatusInputs == {"active", "paused"}

NameInputs == {"alice", "Alice", "bob", "carol"}
NoName == ""          \* request body without a username
UserIds == 1..MaxUsers

ListingTypes == {"sell", "buy"}
ListingStatuses == {"active", "sold", "expired", "cancelled"}
BidStatuses == {"pending", "accepted", "rejected", "countered", "expired"}
NotificationTypes ==
  {"new_bid", "new_offer", "bid_accepted", "offer_accepted", "bid_rejected",
   "offer_rejected", "counter_offer", "listing_expired", "boost_activated",
   "referral_earning"}

VARIABLES
  listings,        \* Listing collection: id -> document
  nextListing,     \* number of Listing documents ever created
  nextBid,         \* number of Bid subdocuments ever created
  companies,       \* Company collection: id -> [totalListings]
  notifications,   \* Notification collection, in insertion order
  now,             \* wall clock, in hours
  last,            \* the response to the last request
  users,           \* User collection: id -> document
  history,         \* UsernameHistory collection (set of documents)
  requests         \* requests in flight: what each has loaded and where it is

vars == <<listings, nextListing, nextBid, companies, notifications, now, last,
          users, history, requests>>
lvars == <<listings, nextListing, nextBid, companies, notifications, now>>
uvars == <<users, history>>

\* ---------------------------------------------------------------- responses
\* res.status(code).json({ message }); a thrown error reaches the error
\* middleware, which answers err.status || 500 with err.message
Resp(status, message) == [status |-> status, message |-> message]
NoResp == Resp(0, "")
ErrorMiddleware(message) == Resp(500, message)

\* ------------------------------------------------------------------ helpers
\* the array a bid route works on
BidArray(l) == IF l.type = "sell" THEN l.bids ELSE l.offers

\* MongooseDocumentArray.id(): index of the subdocument with that _id, 0 if none
BidIndex(arr, bidId) ==
  IF \E i \in 1..Len(arr) : arr[i].id = bidId
    THEN CHOOSE i \in 1..Len(arr) : arr[i].id = bidId
    ELSE 0

WithBidArray_Unsaved(l, arr) == l

WithBidArray_ClosesListing(l, arr) ==
  IF l.type = "sell"
    THEN [l EXCEPT !.bids = arr, !.status = "sold"]
    ELSE [l EXCEPT !.offers = arr, !.status = "sold"]

\* write the bid array back into the document
WithBidArray(l, arr) ==
  IF l.type = "sell" THEN [l EXCEPT !.bids = arr] ELSE [l EXCEPT !.offers = arr]

\* Notification.create / insertMany validate `type` against the schema enum
NotificationValid(n) == n.type \in NotificationTypes

\* err.message of the error Notification.create / insertMany throws: a
\* ValidationError for a type outside the enum, else the driver's write error
NotifError(n) ==
  IF ~NotificationValid(n)
    THEN "Notification validation failed: " \o n.type
    ELSE "MongoServerError"

Notif(userId, type, lid, bidId, amount, quantity) ==
  [userId |-> userId, type |-> type, listingId |-> lid, bidId |-> bidId,
   amount |-> amount, quantity |-> quantity]

\* variants of the definitions below, each with one plausible slip
IsOwner_Always(l, actor) == TRUE
IsOwner_Never(l, actor) == FALSE
IsOwner_OrAdmin(l, actor) == l.userId = actor \/ Role(actor) = "admin"
IsActive_Always(l) == TRUE
PushBid_AlwaysBids(l, bidData) == [l EXCEPT !.bids = Append(l.bids, bidData)]
HasAcceptedBids_BidsOnly(l) ==
  \E i \in 1..Len(l.bids) : l.bids[i].status = "accepted"

\* listing.userId.toString() === req.user._id.toString()
IsOwner(l, actor) == l.userId = actor

\* listing.status === 'active'
IsActive(l) == l.status = "active"

\* bidData as Mongoose stores it: status takes the schema default
NewBid(id, actor, price, quantity) ==
  [id |-> id, userId |-> actor, price |-> price, quantity |-> quantity,
   status |-> "pending", counterHistory |-> <<>>]

\* listing.bids.push(bidData) on a sell post, listing.offers.push(bidData) else
PushBid(l, bidData) ==
  IF l.type = "sell"
    THEN [l EXCEPT !.bids = Append(l.bids, bidData)]
    ELSE [l EXCEPT !.offers = Append(l.offers, bidData)]

HasAcceptedBids(l) ==
  \/ \E i \in 1..Len(l.bids) : l.bids[i].status = "accepted"
  \/ \E i \in 1..Len(l.offers) : l.offers[i].status = "accepted"

RECURSIVE MapUserId(_)
MapUserId(s) ==
  IF s = <<>> THEN <<>> ELSE <<Head(s).userId>> \o MapUserId(Tail(s))

\* ----------------------------------------------------------------- Init
Init ==
  /\ listings = <<>>
  /\ nextListing = 0
  /\ nextBid = 0
  /\ companies = [c \in Companies |-> [totalListings |-> 0]]
  /\ notifications = <<>>
  /\ now = 0
  /\ last = NoResp
  /\ users = <<>>
  /\ history = {}
  /\ requests = [r \in Requests |-> Idle]

\* -------------------------------------------------------------- POST /
\* `max` is the number of Listing documents the run may create
CreateListingUpTo(max, actor, type, company, price, quantity) ==
  /\ nextListing < max
  /\ UNCHANGED <<nextBid, notifications, now, uvars, requests>>
  /\ IF company \notin DOMAIN companies
       THEN /\ last' = Resp(404, "Company not found")
            /\ UNCHANGED <<listings, nextListing, companies>>
       ELSE /\ nextListing' = nextListing + 1
            /\ listings' = listings @@ (nextListing + 1 :>
                 [userId |-> actor, type |-> type, companyId |-> company,
                  price |-> price, quantity |-> quantity, status |-> "active",
                  bids |-> <<>>, offers |-> <<>>, isBoosted |-> FALSE,
                  boostExpiresAt |-> 0, expiresAt |-> now + ListingTTL])
            /\ companies' = [companies EXCEPT
                 ![company].totalListings = companies[company].totalListings + 1]
            /\ last' = Resp(201, "created successfully")

CreateListing(actor, type, company, price, quantity) ==
  CreateListingUpTo(MaxListings, actor, type, company, price, quantity)

\* --------------------------------------------------------- POST /:id/bid
\* `created` is whether the database accepts the Notification.create write
PlaceBidWith(actor, lid, price, quantity, created) ==
  /\ nextBid < MaxBids
  /\ Len(notifications) < MaxNotifs
  /\ UNCHANGED <<nextListing, companies, now, uvars, requests>>
  /\ IF lid \notin DOMAIN listings
       THEN /\ last' = Resp(404, "Listing not found")
            /\ UNCHANGED <<listings, nextBid, notifications>>
       ELSE LET l == listings[lid] IN
         IF IsOwner(l, actor)
           THEN /\ last' = Resp(400, "Cannot bid on your own listing")
                /\ UNCHANGED <<listings, nextBid, notifications>>
         ELSE IF ~IsActive(l)
           THEN /\ last' = Resp(400, "Listing is not active")
                /\ UNCHANGED <<listings, nextBid, notifications>>
         ELSE
           LET bidData == NewBid(nextBid + 1, actor, price, quantity)
               l2 == PushBid(l, bidData)
               n == Notif(l.userId,
                          IF l.type = "sell" THEN "new_bid" ELSE "new_offer",
                          lid, bidData.id, price, quantity)
           IN /\ listings' = [listings EXCEPT ![lid] = l2]
              /\ nextBid' = nextBid + 1
              /\ IF NotificationValid(n) /\ created
                   THEN /\ notifications' = Append(notifications, n)
                        /\ last' = Resp(201, IF l.type = "sell"
                                               THEN "Bid placed successfully"
                                               ELSE "Offer made successfully")
                   \* Notification.create throws after listing.save()
                   ELSE /\ UNCHANGED notifications
                        /\ last' = ErrorMiddleware(NotifError(n))

PlaceBid(actor, lid, price, quantity) ==
  PlaceBidWith(actor, lid, price, quantity, TRUE)

\* ------------------------------------- PUT /:listingId/bids/:bidId/accept
\* ------------------------------------- PUT /:listingId/bids/:bidId/reject
\* The two handlers are the same code but for the status they write, the
\* notification type and the wording of the messages.
SetBidStatus(actor, lid, bidId, status, ntype, verb, done, created) ==
  /\ Len(notifications) < MaxNotifs
  /\ UNCHANGED <<nextListing, nextBid, companies, now, uvars, requests>>
  /\ IF lid \notin DOMAIN listings
       THEN /\ last' = Resp(404, "Listing not found")
            /\ UNCHANGED <<listings, notifications>>
       ELSE LET l == listings[lid]
                arr == BidArray(l)
                i == BidIndex(arr, bidId)
            IN
         IF ~IsOwner(l, actor)
           THEN /\ last' = Resp(403, "Not authorized to " \o verb \o " this bid")
                /\ UNCHANGED <<listings, notifications>>
         ELSE IF i = 0
           THEN /\ last' = Resp(404, "Bid not found")
                /\ UNCHANGED <<listings, notifications>>
         ELSE
           LET bid == [arr[i] EXCEPT !.status = status]
               n == Notif(bid.userId, ntype, lid, bid.id, bid.price, bid.quantity)
           IN /\ listings' = [listings EXCEPT
                                ![lid] = WithBidArray(l, [arr EXCEPT ![i] = bid])]
              /\ IF NotificationValid(n) /\ created
                   THEN /\ notifications' = Append(notifications, n)
                        /\ last' = Resp(200, done)
                   ELSE /\ UNCHANGED notifications
                        /\ last' = ErrorMiddleware(NotifError(n))

AcceptBidWith(actor, lid, bidId, created) ==
  SetBidStatus(actor, lid, bidId, "accepted", "bid_accepted", "accept",
               "Bid accepted successfully", created)

RejectBidWith(actor, lid, bidId, created) ==
  SetBidStatus(actor, lid, bidId, "rejected", "bid_rejected", "reject",
               "Bid rejected successfully", created)

AcceptBid(actor, lid, bidId) == AcceptBidWith(actor, lid, bidId, TRUE)

RejectBid(actor, lid, bidId) == RejectBidWith(actor, lid, bidId, TRUE)

\* ------------------------------------ PUT /:listingId/bids/:bidId/counter
\* quantity = NoQty is a body without quantity (or with a falsy one)
CounterRound_ZeroBased(bid) == Len(bid.counterHistory)

CounterRound(bid) == Len(bid.counterHistory) + 1

CounterEntry_RawQuantity(bid, price, quantity) ==
  [round |-> Len(bid.counterHistory) + 1, by |-> "seller", price |-> price,
   quantity |-> quantity]

CounterEntry(bid, price, quantity) ==
  [round |-> CounterRound(bid), by |-> "seller", price |-> price,
   quantity |-> IF quantity # NoQty THEN quantity ELSE bid.quantity]

CounteredBid_KeepsPrice(bid, price, quantity) ==
  [bid EXCEPT !.counterHistory =
                 Append(@, [round |-> Len(bid.counterHistory) + 1,
                            by |-> "seller", price |-> price,
                            quantity |-> IF quantity # NoQty THEN quantity
                                         ELSE bid.quantity]),
              !.status = "countered",
              !.quantity = IF quantity # NoQty THEN quantity ELSE @]

CounteredBid(bid, price, quantity) ==
  [bid EXCEPT !.counterHistory = Append(@, CounterEntry(bid, price, quantity)),
              !.status = "countered",
              !.price = price,
              !.quantity = IF quantity # NoQty THEN quantity ELSE @]

CounterNotifType == "bid_countered"

CounterBidWith(actor, lid, bidId, price, quantity, created) ==
  /\ UNCHANGED <<nextListing, nextBid, companies, now, uvars, requests>>
  /\ IF lid \notin DOMAIN listings
       THEN /\ last' = Resp(404, "Listing not found")
            /\ UNCHANGED <<listings, notifications>>
       ELSE LET l == listings[lid]
                arr == BidArray(l)
                i == BidIndex(arr, bidId)
            IN
         IF ~IsOwner(l, actor)
           THEN /\ last' = Resp(403, "Not authorized to counter this bid")
                /\ UNCHANGED <<listings, notifications>>
         ELSE IF i = 0
           THEN /\ last' = Resp(404, "Bid not found")
                /\ UNCHANGED <<listings, notifications>>
         ELSE
           LET bid == CounteredBid(arr[i], price, quantity)
               n == Notif(bid.userId, CounterNotifType, lid, bid.id, price,
                          bid.quantity)
           IN /\ Len(arr[i].counterHistory) < MaxRounds
              /\ listings' = [listings EXCEPT
                                ![lid] = WithBidArray(l, [arr EXCEPT ![i] = bid])]
              /\ IF NotificationValid(n) /\ created
                   THEN /\ Len(notifications) < MaxNotifs
                        /\ notifications' = Append(notifications, n)
                        /\ last' = Resp(200, "Counter offer sent successfully")
                   ELSE /\ UNCHANGED notifications
                        /\ last' = ErrorMiddleware(NotifError(n))

CounterBid(actor, lid, bidId, price, quantity) ==
  CounterBidWith(actor, lid, bidId, price, quantity, TRUE)

\* ------------------------------------------------------------- PUT /:id
\* NoPrice / NoQty is a body without that field
UpdateListing(actor, lid, price, quantity) ==
  /\ UNCHANGED <<nextListing, nextBid, companies, notifications, now, uvars, requests>>
  /\ IF lid \notin DOMAIN listings
       THEN /\ last' = Resp(404, "Listing not found")
            /\ UNCHANGED listings
       ELSE LET l == listings[lid] IN
         IF ~IsOwner(l, actor)
           THEN /\ last' = Resp(403, "Not authorized to update this listing")
                /\ UNCHANGED listings
         ELSE IF ~IsActive(l)
           THEN /\ last' = Resp(400, "Can only update active listings")
                /\ UNCHANGED listings
         ELSE /\ listings' = [listings EXCEPT
                   ![lid].price = IF price # NoPrice THEN price ELSE @,
                   ![lid].quantity = IF quantity # NoQty THEN quantity ELSE @]
              /\ last' = Resp(200, "Listing updated successfully")

\* ------------------------------------------------------- PUT /:id/boost
BoostUntil_Stacking(l) ==
  IF l.isBoosted THEN l.boostExpiresAt + BoostWindow ELSE now + BoostWindow

\* new Date(Date.now() + 24 * 60 * 60 * 1000)
BoostUntil(l) == now + BoostWindow

BoostListing(actor, lid) ==
  /\ UNCHANGED <<nextListing, nextBid, companies, notifications, now, uvars, requests>>
  /\ IF lid \notin DOMAIN listings
       THEN /\ last' = Resp(404, "Listing not found")
            /\ UNCHANGED listings
       ELSE LET l == listings[lid] IN
         IF ~IsOwner(l, actor)
           THEN /\ last' = Resp(403, "Not authorized")
                /\ UNCHANGED listings
           ELSE /\ listings' = [listings EXCEPT
                     ![lid].isBoosted = TRUE,
                     ![lid].boostExpiresAt = BoostUntil(l)]
                /\ last' = Resp(200, "Listing boosted successfully for 24 hours")

\* ----------------------------------------------------------- DELETE /:id
\* document.deleteOne()
RemoveListing(ls, lid) == [k \in DOMAIN ls \ {lid} |-> ls[k]]

CancelNotifs(l, lid) ==
  LET bidUsers == MapUserId(l.bids \o l.offers)
  IN [k \in 1..Len(bidUsers) |->
        Notif(bidUsers[k], "listing_cancelled", lid, 0, 0, 0)]

DeleteListing(actor, lid) ==
  /\ UNCHANGED <<nextListing, nextBid, companies, now, uvars, requests>>
  /\ IF lid \notin DOMAIN listings
       THEN /\ last' = Resp(404, "Listing not found")
            /\ UNCHANGED <<listings, notifications>>
       ELSE LET l == listings[lid]
                ns == CancelNotifs(l, lid)
            IN
         IF ~IsOwner(l, actor)
           THEN /\ last' = Resp(403, "Not authorized to delete this listing")
                /\ UNCHANGED <<listings, notifications>>
         ELSE IF HasAcceptedBids(l)
           THEN /\ last' = Resp(400, "Cannot delete listing with accepted bids/offers. Please contact admin.")
                /\ UNCHANGED <<listings, notifications>>
         ELSE IF \E k \in 1..Len(ns) : ~NotificationValid(ns[k])
           \* insertMany rejects when a document fails validation: nothing is
           \* inserted and deleteOne() is never reached
           THEN /\ last' = ErrorMiddleware(
                             NotifError(ns[1]))
                /\ UNCHANGED <<listings, notifications>>
         ELSE /\ Len(notifications) + Len(ns) <= MaxNotifs
              /\ notifications' = notifications \o ns
              /\ listings' = RemoveListing(listings, lid)
              /\ last' = Resp(200, "Listing deleted successfully")

\* --------------------------------------- DELETE /api/admin/listings/:id
\* router.use(protect, authorize('admin')): only an admin reaches the handler
AdminDeleteListing(actor, lid) ==
  /\ Role(actor) = "admin"
  /\ UNCHANGED <<nextListing, nextBid, companies, notifications, now, uvars, requests>>
  /\ IF lid \notin DOMAIN listings
       THEN /\ last' = Resp(404, "Listing not found")
            /\ UNCHANGED listings
       ELSE /\ listings' = RemoveListing(listings, lid)
            /\ last' = Resp(200, "Listing deleted successfully")

\* ----------------------------------- PUT /api/admin/listings/:id/status
\* findByIdAndUpdate without runValidators: the enum is not checked
AdminSetStatus(actor, lid, status) ==
  /\ Role(actor) = "admin"
  /\ UNCHANGED <<nextListing, nextBid, companies, notifications, now, uvars, requests>>
  /\ IF lid \notin DOMAIN listings
       THEN /\ last' = Resp(404, "Listing not found")
            /\ UNCHANGED listings
       ELSE /\ listings' = [listings EXCEPT ![lid].status = status]
            /\ last' = Resp(200, "Listing status updated successfully")

\* ===================================================== username history
\* String.prototype.toLowerCase / the schemas' `lowercase: true` setter
ToLower(n) == IF n = "Alice" THEN "alice" ELSE n

\* User.findOne({ username })
UserWithName(n) == {u \in DOMAIN users : users[u].username = n}

\* UsernameHistory.findOne({ username })
HistoryWithName_ChangesOnly(n) ==
  {h \in history : h.username = n /\ h.reason = "User changed username"}

HistoryWithName(n) == {h \in history : h.username = n}

HistoryDoc(n, uid, reason) == [username |-> ToLower(n), userId |-> uid,
                               reason |-> reason]

\* the paths of userSchema that the username routes write; document.save()
\* persists schema paths only (strict mode)
UserSchemaPaths == {"username"}

Persisted(stored, doc) ==
  [f \in DOMAIN stored |-> IF f \in UserSchemaPaths THEN doc[f] ELSE stored[f]]

\* ------------------------------------------------ POST /api/auth/register
\* (an auto-generated username is one more value of `username`: it is drawn
\* until no User has it, and then takes the same path)
Register(username) ==
  /\ Cardinality(DOMAIN users) < MaxUsers
  /\ UNCHANGED <<lvars, requests>>
  /\ LET id == Cardinality(DOMAIN users) + 1
         name == ToLower(username)
     IN IF UserWithName(name) # {}
          THEN /\ last' = Resp(400, "Username already taken")
               /\ UNCHANGED <<users, history>>
          ELSE /\ users' = users @@ (id :> [username |-> name,
                                            previousUsernames |-> <<>>])
               /\ IF HistoryWithName(name) # {}
                    \* unique index on UsernameHistory.username: create() throws
                    \* after the User document has been written
                    THEN /\ UNCHANGED history
                         /\ last' = ErrorMiddleware("E11000 duplicate key: usernamehistories")
                    ELSE /\ history' = history \cup
                              {HistoryDoc(name, id, "Initial registration")}
                         /\ last' = Resp(201, "Registration successful")

\* --------------------------------------------------- PUT /api/auth/profile
ChangeUsername(uid, username) ==
  /\ uid \in DOMAIN users
  /\ UNCHANGED <<lvars, requests>>
  /\ LET user == users[uid]
         oldUsername == user.username
     IN IF username = NoName \/ username = user.username
          THEN /\ UNCHANGED <<users, history>>
               /\ last' = Resp(200, "Profile updated successfully")
        ELSE IF HistoryWithName(ToLower(username)) # {}
          THEN /\ UNCHANGED <<users, history>>
               /\ last' = Resp(400, "This username was previously used and cannot be assigned to another user")
        ELSE IF HistoryWithName(ToLower(oldUsername)) # {}
          \* UsernameHistory.create for the old username hits the unique index
          THEN /\ UNCHANGED <<users, history>>
               /\ last' = ErrorMiddleware("E11000 duplicate key: usernamehistories")
        ELSE
          LET doc == [user EXCEPT
                        !.previousUsernames = Append(@, oldUsername),
                        !.username = ToLower(username)]
          IN /\ history' = history \cup
                  {HistoryDoc(oldUsername, uid, "User changed username")}
             /\ IF UserWithName(doc.username) \ {uid} # {}
                  \* unique index on User.username: save() throws
                  THEN /\ UNCHANGED users
                       /\ last' = ErrorMiddleware("E11000 duplicate key: users")
                  ELSE /\ users' = [users EXCEPT ![uid] = Persisted(user, doc)]
                       /\ last' = Resp(200, "Profile updated successfully")

\* ----------------------------------------------------- POST /api/kyc/draft
\* (POST /api/kyc/submit writes the username the same way)
KycSetUsername(uid, username) ==
  /\ uid \in DOMAIN users
  /\ UNCHANGED <<lvars, history, requests>>
  /\ LET user == users[uid]
         doc == IF username # NoName
                  THEN [user EXCEPT !.username = ToLower(username)]
                  ELSE user
     IN IF UserWithName(doc.username) \ {uid} # {}
          THEN /\ UNCHANGED users
               /\ last' = Resp(500, "Server error")
          ELSE /\ users' = [users EXCEPT ![uid] = Persisted(user, doc)]
               /\ last' = Resp(200, "KYC draft saved successfully")

Next ==
  \/ \E a \in Users, t \in ListingTypes, c \in Companies \cup {NoCompany},
        p \in CreatePrices, q \in CreateQtys : CreateListing(a, t, c, p, q)
  \/ \E a \in Users, l \in ListingIds, p \in PlacePrices, q \in PlaceQtys :
        PlaceBid(a, l, p, q)
  \/ \E a \in Users, l \in ListingIds, b \in BidIds : AcceptBid(a, l, b)
  \/ \E a \in Users, l \in ListingIds, b \in BidIds : RejectBid(a, l, b)
  \/ \E a \in Users, l \in ListingIds, b \in BidIds, p \in CounterPrices,
        q \in CounterQtys : CounterBid(a, l, b, p, q)
  \/ \E a \in Users, l \in ListingIds, p \in UpdatePrices, q \in UpdateQtys :
        UpdateListing(a, l, p, q)
  \/ \E a \in Users, l \in ListingIds : BoostListing(a, l)
  \/ \E a \in Users, l \in ListingIds : DeleteListing(a, l)
  \/ \E a \in Users, l \in ListingIds : AdminDeleteListing(a, l)
  \/ \E a \in Users, l \in ListingIds, s \in StatusInputs :
        AdminSetStatus(a, l, s)

Spec == Init /\ [][Next]_vars
\* ---------------------------------- GET /api/admin/check-username/:username
NoUser == 0           \* null in the response

UsernameAvailable_ActiveOnly(candidate) ==
  UserWithName(ToLower(candidate)) = {}

\* !currentUser && !history, both looked up by the lowercased parameter
UsernameAvailable(candidate) ==
  /\ UserWithName(ToLower(candidate)) = {}
  /\ HistoryWithName(ToLower(candidate)) = {}

\* router.use(protect, authorize('admin')): only an admin reaches the handler
CheckUsername(actor, candidate) ==
  /\ Role(actor) = "admin"
  /\ UNCHANGED <<lvars, uvars, requests>>
  /\ LET username == ToLower(candidate)
         currentUser == UserWithName(username)
         hist == HistoryWithName(username)
     IN IF UsernameAvailable(candidate)
          THEN last' = [status |-> 200,
                        message |-> "Username is available and has never been used",
                        available |-> TRUE]
          ELSE last' = [status |-> 200, message |-> "", available |-> FALSE,
                        currentlyUsedBy |->
                          IF currentUser # {} THEN CHOOSE u \in currentUser : TRUE
                          ELSE NoUser,
                        previouslyUsedBy |->
                          IF hist # {} THEN (CHOOSE h \in hist : TRUE).userId
                          ELSE NoUser]

NextU ==
  \/ \E n \in NameInputs : Register(n)
  \/ \E a \in Users, n \in NameInputs : CheckUsername(a, n)
  \/ \E u \in UserIds, n \in NameInputs \cup {NoName} : ChangeUsername(u, n)
  \/ \E u \in UserIds, n \in NameInputs \cup {NoName} : KycSetUsername(u, n)

SpecU == Init /\ [][NextU]_vars

\* the bid routes when the Notification write may fail at the database
NextN ==
  \/ \E a \in Users, t \in ListingTypes, c \in Companies,
        p \in CreatePrices, q \in CreateQtys : CreateListing(a, t, c, p, q)
  \/ \E a \in Users, l \in ListingIds, p \in PlacePrices, q \in PlaceQtys,
        w \in BOOLEAN : PlaceBidWith(a, l, p, q, w)
  \/ \E a \in Users, l \in ListingIds, b \in BidIds, w \in BOOLEAN :
        AcceptBidWith(a, l, b, w)
  \/ \E a \in Users, l \in ListingIds, b \in BidIds, w \in BOOLEAN :
        RejectBidWith(a, l, b, w)
  \/ \E a \in Users, l \in ListingIds, b \in BidIds, p \in CounterPrices,
        q \in {NoQty}, w \in BOOLEAN : CounterBidWith(a, l, b, p, q, w)

SpecN == Init /\ [][NextN]_vars

\* ============================================================ time and reads
\* new Date() / Date.now(): the clock moves between requests
TickSteps == {1, ListingTTL}

\* the clock moves by d hours; the runs follow it for MaxClock hours past
\* each multiple of `period`, up to the first one
TickWithin(period, d) ==
  /\ now + d <= period + MaxClock
  /\ (now % period) + (d % period) <= MaxClock
  /\ now' = now + d
  /\ UNCHANGED <<listings, nextListing, nextBid, companies, notifications,
                 last, uvars, requests>>

Tick(d) == TickWithin(ListingTTL, d)

\* optionalAuth: a request without a token has no req.user
Anonymous == "anon"

\* Listing.find({ status: 'active', userId: { $ne: req.user._id } }) with the
\* pre('find') hook's { expiresAt: { $gt: new Date() } } added to the filter
MarketplaceQuery(actor) ==
  {lid \in DOMAIN listings :
     /\ listings[lid].status = "active"
     /\ actor # Anonymous => listings[lid].userId # actor
     /\ listings[lid].expiresAt > now}

\* req.query.sort; the default is '-createdAt'
SortInputs == {"-createdAt", "price"}

\* the value a document has at the path named by `sort`: the sort is given
\* as an object, so '-createdAt' is taken as a path name, and no document
\* has a path of that name
SortKey(l, sort) == IF sort = "price" THEN l.price ELSE NoPrice

\* .sort({ isBoosted: -1, [sort]: 1 }) puts a ahead of b
SortsBefore(a, b, sort) ==
  \/ a.isBoosted /\ ~b.isBoosted
  \/ a.isBoosted = b.isBoosted /\ SortKey(a, sort) < SortKey(b, sort)

\* the orders the sort may return the documents S in (documents that tie are
\* in any order)
SortedPages(S, sort) ==
  {s \in [1..Cardinality(S) -> S] :
     \A i, j \in 1..Cardinality(S) :
       i < j => /\ s[i] # s[j]
                /\ ~SortsBefore(listings[s[j]], listings[s[i]], sort)}

\* --------------------------------------------------------------- GET /
\* (page 1 with the default limit of 20 holds every Listing of the model)
GetListings(actor, sort) ==
  /\ \E s \in SortedPages(MarketplaceQuery(actor), sort) :
       last' = [status |-> 200, message |-> "", data |-> s]
  /\ UNCHANGED <<lvars, uvars, requests>>

NextT ==
  \/ \E a \in Users, t \in ListingTypes, c \in Companies,
        p \in CreatePrices, q \in CreateQtys : CreateListing(a, t, c, p, q)
  \/ \E a \in Users, l \in ListingIds, p \in PlacePrices, q \in PlaceQtys :
        PlaceBid(a, l, p, q)
  \/ \E a \in Users, l \in ListingIds : BoostListing(a, l)
  \/ \E a \in Users, l \in ListingIds, st \in StatusInputs :
        AdminSetStatus(a, l, st)
  \/ \E a \in Users \cup {Anonymous}, s \in SortInputs : GetListings(a, s)
  \/ \E d \in TickSteps : Tick(d)

SpecT == Init /\ [][NextT]_vars

\* the marketplace page over several Listings
PagePrices == {1, 2}

NextB ==
  \/ \E a \in Users, t \in {"sell"}, c \in Companies, p \in PagePrices,
        q \in CreateQtys : CreateListingUpTo(MaxPage, a, t, c, p, q)
  \/ \E a \in Users, l \in 1..MaxPage : BoostListing(a, l)
  \/ \E a \in Users \cup {Anonymous}, s \in SortInputs : GetListings(a, s)
  \/ \E d \in {1, BoostWindow} : TickWithin(BoostWindow, d)

SpecB == Init /\ [][NextB]_vars

\* ==================================================== overlapping requests
\* A handler runs up to its next `await` and then yields to the other
\* requests.  The steps below are the stretches of POST / and of
\* PUT /:listingId/bids/:bidId/counter between their database calls.

\* __v of a Listing document: save() increments it whenever it pushes to an
\* array of the document (bids, offers, a Bid's counterHistory), so it is the
\* number of array elements pushed so far; the schema does not switch the
\* versionKey off
RECURSIVE Pushes(_)
Pushes(arr) ==
  IF arr = <<>> THEN 0
  ELSE 1 + Len(Head(arr).counterHistory) + Pushes(Tail(arr))

Version(l) == Pushes(l.bids) + Pushes(l.offers)

\* const company = await Company.findById(companyId)
CreateLoad(r, actor, type, company, price, quantity) ==
  /\ requests[r].pc = "idle"
  /\ UNCHANGED <<lvars, uvars>>
  /\ IF company \notin DOMAIN companies
       THEN /\ last' = Resp(404, "Company not found")
            /\ UNCHANGED requests
       ELSE /\ requests' = [requests EXCEPT ![r] =
                 [pc |-> "create:found", actor |-> actor, type |-> type,
                  company |-> company, price |-> price, quantity |-> quantity,
                  doc |-> companies[company]]]
            /\ UNCHANGED last

\* const listing = await Listing.create({ ... })
CreateInsert(r) ==
  /\ requests[r].pc = "create:found"
  /\ LET q == requests[r] IN
       /\ nextListing' = nextListing + 1
       /\ listings' = listings @@ (nextListing + 1 :>
            [userId |-> q.actor, type |-> q.type, companyId |-> q.company,
             price |-> q.price, quantity |-> q.quantity, status |-> "active",
             bids |-> <<>>, offers |-> <<>>, isBoosted |-> FALSE,
             boostExpiresAt |-> 0, expiresAt |-> now + ListingTTL])
  /\ requests' = [requests EXCEPT ![r].pc = "create:inserted"]
  /\ UNCHANGED <<nextBid, companies, notifications, now, last, uvars>>

\* company.totalListings += 1 on the copy findById returned, then
\* await company.save(): { $set: { totalListings } }, and the response
CreateSave(r) ==
  /\ requests[r].pc = "create:inserted"
  /\ LET q == requests[r] IN
       companies' = [companies EXCEPT
                       ![q.company].totalListings = q.doc.totalListings + 1]
  /\ last' = Resp(201, "created successfully")
  /\ requests' = [requests EXCEPT ![r].pc = "create:done"]
  /\ UNCHANGED <<listings, nextListing, nextBid, notifications, now, uvars>>

\* const listing = await Listing.findById(req.params.listingId) and the
\* checks on the document it returned
CounterLoad(r, actor, lid, bidId, price, quantity) ==
  /\ requests[r].pc = "idle"
  /\ UNCHANGED <<lvars, uvars>>
  /\ IF lid \notin DOMAIN listings
       THEN /\ last' = Resp(404, "Listing not found")
            /\ UNCHANGED requests
       ELSE LET l == listings[lid]
                arr == BidArray(l)
                i == BidIndex(arr, bidId)
            IN
         IF ~IsOwner(l, actor)
           THEN /\ last' = Resp(403, "Not authorized to counter this bid")
                /\ UNCHANGED requests
         ELSE IF i = 0
           THEN /\ last' = Resp(404, "Bid not found")
                /\ UNCHANGED requests
         ELSE /\ Len(arr[i].counterHistory) < MaxRounds
              /\ requests' = [requests EXCEPT ![r] =
                   [pc |-> "counter:found", actor |-> actor, lid |-> lid,
                    bidId |-> bidId, price |-> price, quantity |-> quantity,
                    doc |-> l]]
              /\ UNCHANGED last

\* what save() sends for the Bid: the $push of the entry built on the loaded
\* copy and the $set of status, price and quantity
CounterDelta(stored, loaded, price, quantity) ==
  [stored EXCEPT
     !.counterHistory = Append(@, CounterEntry(loaded, price, quantity)),
     !.status = "countered",
     !.price = price,
     !.quantity = IF quantity # NoQty THEN quantity ELSE @]

\* await listing.save(): the update is filtered by the __v that was loaded
\* and throws a VersionError when no document matches; then
\* Notification.create and the response
CounterSave(r) ==
  /\ requests[r].pc = "counter:found"
  /\ requests' = [requests EXCEPT ![r].pc = "counter:done"]
  /\ UNCHANGED <<nextListing, nextBid, companies, now, uvars>>
  /\ LET q == requests[r]
         l == q.doc
         i == BidIndex(BidArray(l), q.bidId)
         stored == listings[q.lid]
         n == Notif(BidArray(l)[i].userId, CounterNotifType, q.lid, q.bidId,
                    q.price,
                    IF q.quantity # NoQty THEN q.quantity
                    ELSE BidArray(l)[i].quantity)
     IN IF Version(stored) # Version(l)
          THEN /\ last' = ErrorMiddleware("VersionError")
               /\ UNCHANGED <<listings, notifications>>
          ELSE /\ listings' = [listings EXCEPT ![q.lid] =
                    WithBidArray(stored,
                      [BidArray(stored) EXCEPT
                         ![i] = CounterDelta(@, BidArray(l)[i], q.price,
                                             q.quantity)])]
               /\ IF NotificationValid(n)
                    THEN /\ Len(notifications) < MaxNotifs
                         /\ notifications' = Append(notifications, n)
                         /\ last' = Resp(200, "Counter offer sent successfully")
                    ELSE /\ UNCHANGED notifications
                         /\ last' = ErrorMiddleware(NotifError(n))

NextC ==
  \/ \E a \in Users, t \in ListingTypes, c \in Companies,
        p \in CreatePrices, q \in CreateQtys : CreateListing(a, t, c, p, q)
  \/ \E r \in Requests, a \in Users, t \in ListingTypes, c \in Companies,
        p \in CreatePrices, q \in CreateQtys : CreateLoad(r, a, t, c, p, q)
  \/ \E r \in Requests : CreateInsert(r)
  \/ \E r \in Requests : CreateSave(r)
  \/ \E a \in Users, l \in 1..(MaxListings + MaxRequests),
        p \in PlacePrices, q \in PlaceQtys : PlaceBid(a, l, p, q)
  \/ \E r \in Requests, a \in Users, l \in 1..(MaxListings + MaxRequests),
        b \in BidIds, p \in OverlapPrices, q \in {NoQty} :
        CounterLoad(r, a, l, b, p, q)
  \/ \E r \in Requests : CounterSave(r)

SpecC == Init /\ [][NextC]_vars
\* ================================================================= claims
\* the error taxonomy of the responses (404, 403, 400, 500)
ConflictMessages ==
  {"Cannot delete listing with accepted bids/offers. Please contact admin.",
   "This username was previously used and cannot be assigned to another user",
   "Username already taken"}

ErrorKind(r) ==
  CASE r.status \in {200, 201} -> "ok"
    [] r.status = 404 -> "NotFound"
    [] r.status = 403 -> "Unauthorized"
    [] r.status = 400 /\ r.message \in ConflictMessages -> "Conflict"
    [] r.status = 400 -> "InvalidOperation"
    [] OTHER -> "ServerError"

\* every Bid of a Listing, bids first
AllBids(l) == l.bids \o l.offers

AnyAccepted(l) ==
  \E i \in 1..Len(AllBids(l)) : AllBids(l)[i].status = "accepted"

Removed(lid) == lid \in DOMAIN listings /\ lid \notin DOMAIN listings'

\* C1: once a Bid is accepted or rejected, no later request changes its
\* status, price, quantity or counterHistory.
C1_TerminalBidsAreFrozen ==
  [][\A lid \in DOMAIN listings \cap DOMAIN listings' :
       \A i \in 1..Len(AllBids(listings[lid])) :
         AllBids(listings[lid])[i].status \in {"accepted", "rejected"}
           => AllBids(listings'[lid])[i] = AllBids(listings[lid])[i]]_vars

\* C2: a username that has a UsernameHistory record is never made the active
\* username of a user by a later registration or username change.
C2_NoReassignment ==
  [][\A n \in {ToLower(x) : x \in NameInputs} :
       ( /\ \E h \in history : h.username = n
         /\ \/ \E x \in NameInputs : Register(x)
            \/ \E u \in UserIds, x \in NameInputs \cup {NoName} :
                 ChangeUsername(u, x) )
       => \A u \in DOMAIN users' :
            users'[u].username = n
              => (u \in DOMAIN users /\ users[u].username = n)]_vars

\* C3: DeleteListing by the owner of a Listing holding an accepted Bid fails
\* with Conflict, changes no Listing and creates no Notification.
C3_DeleteWithAcceptedBidIsConflict ==
  [][\A a \in Users, lid \in ListingIds :
       ( /\ lid \in DOMAIN listings
         /\ listings[lid].userId = a
         /\ AnyAccepted(listings[lid])
         /\ DeleteListing(a, lid) )
       => /\ ErrorKind(last') = "Conflict"
          /\ listings' = listings
          /\ notifications' = notifications]_vars

C3_Witness ==
  /\ last.message = "Cannot delete listing with accepted bids/offers. Please contact admin."
  /\ \E lid \in DOMAIN listings : AnyAccepted(listings[lid])

\* C4 as stated: a Listing is removed only by its owner's DeleteListing, and
\* never while it holds an accepted Bid.
C4_OnlyOwnerDeletesAndNeverAccepted ==
  [][\A lid \in ListingIds :
       Removed(lid)
       => /\ ~AnyAccepted(listings[lid])
          /\ \E a \in Users : DeleteListing(a, lid)
          /\ \A a \in Users :
               DeleteListing(a, lid) => a = listings[lid].userId]_vars

\* C4 amended: a Listing is removed only by DeleteListing or by the admin
\* route; DeleteListing removes it only for its owner and only when it holds
\* no accepted Bid; the admin route removes it only for an admin (and then
\* whatever its bids).
C4_DeletionByOwnerOrAdmin ==
  [][\A lid \in ListingIds :
       Removed(lid)
       => /\ \/ \E a \in Users : DeleteListing(a, lid)
             \/ \E a \in Users : AdminDeleteListing(a, lid)
          /\ \A a \in Users :
               DeleteListing(a, lid)
                 => (a = listings[lid].userId /\ ~AnyAccepted(listings[lid]))
          /\ \A a \in Users :
               AdminDeleteListing(a, lid) => Role(a) = "admin"]_vars

C4_Witness ==
  /\ last.message = "Listing deleted successfully"
  /\ nextListing > 0
  /\ DOMAIN listings = {}

\* C5: bids hold Bids only on a sell Listing and offers only on a buy
\* Listing, so the two are never both non-empty, and a Listing's type never
\* changes.
C5_BidsOrOffers ==
  /\ [](\A lid \in DOMAIN listings :
          /\ ~(listings[lid].bids # <<>> /\ listings[lid].offers # <<>>)
          /\ listings[lid].bids # <<>> => listings[lid].type = "sell"
          /\ listings[lid].offers # <<>> => listings[lid].type = "buy")
  /\ [][\A lid \in DOMAIN listings \cap DOMAIN listings' :
          listings'[lid].type = listings[lid].type]_vars

C5_Witness ==
  \E lid \in DOMAIN listings :
    listings[lid].type = "buy" /\ Len(listings[lid].offers) = 2

\* C6: the rounds of every counterHistory are 1, 2, ..., n in order.
C6_RoundsGapless ==
  \A lid \in DOMAIN listings :
    \A i \in 1..Len(AllBids(listings[lid])) :
      LET ch == AllBids(listings[lid])[i].counterHistory
      IN \A k \in 1..Len(ch) : ch[k].round = k

C6_Witness ==
  \E lid \in DOMAIN listings :
    \E i \in 1..Len(AllBids(listings[lid])) :
      Len(AllBids(listings[lid])[i].counterHistory) = 2

\* C7: AcceptBid, RejectBid and CounterBid by an actor who is not the owner
\* fail with Unauthorized, change no Listing and create no Notification.
C7_NonOwnerIsUnauthorized ==
  [][\A a \in Users, lid \in ListingIds, b \in BidIds :
       ( /\ lid \in DOMAIN listings
         /\ listings[lid].userId # a
         /\ \/ AcceptBid(a, lid, b)
            \/ RejectBid(a, lid, b)
            \/ \E p \in CounterPrices, q \in CounterQtys :
                 CounterBid(a, lid, b, p, q) )
       => /\ ErrorKind(last') = "Unauthorized"
          /\ listings' = listings
          /\ notifications' = notifications]_vars

C7_Witness ==
  /\ last.message \in {"Not authorized to accept this bid",
                       "Not authorized to reject this bid",
                       "Not authorized to counter this bid"}
  /\ \E lid \in DOMAIN listings : AllBids(listings[lid]) # <<>>

\* C8: PlaceBid on a Listing succeeds exactly when the Listing is active and
\* the bidder is not its owner; it then appends one pending Bid with empty
\* counterHistory to bids (sell) or offers (buy) and creates one
\* new_bid/new_offer Notification for the owner; otherwise it fails with
\* InvalidOperation and changes nothing.
IsFreshBid(bid, a, p, q) ==
  /\ bid.userId = a
  /\ bid.price = p
  /\ bid.quantity = q
  /\ bid.status = "pending"
  /\ bid.counterHistory = <<>>

C8_PlaceBid ==
  [][\A a \in Users, lid \in ListingIds, p \in PlacePrices, q \in PlaceQtys :
       (lid \in DOMAIN listings /\ PlaceBid(a, lid, p, q))
       => LET l == listings[lid] IN
          IF l.status = "active" /\ l.userId # a
            THEN /\ ErrorKind(last') = "ok"
                 /\ lid \in DOMAIN listings'
                 /\ LET m == listings'[lid]
                        old == IF l.type = "sell" THEN l.bids ELSE l.offers
                        new == IF l.type = "sell" THEN m.bids ELSE m.offers
                    IN /\ Len(new) = Len(old) + 1
                       /\ SubSeq(new, 1, Len(old)) = old
                       /\ IsFreshBid(new[Len(new)], a, p, q)
                       /\ [m EXCEPT !.bids = <<>>, !.offers = <<>>]
                            = [l EXCEPT !.bids = <<>>, !.offers = <<>>]
                       /\ l.type = "sell" => m.offers = l.offers
                       /\ l.type = "buy" => m.bids = l.bids
                 /\ Len(notifications') = Len(notifications) + 1
                 /\ SubSeq(notifications', 1, Len(notifications)) = notifications
                 /\ LET n == notifications'[Len(notifications')]
                    IN /\ n.userId = l.userId
                       /\ n.type = IF l.type = "sell" THEN "new_bid"
                                   ELSE "new_offer"
            ELSE /\ ErrorKind(last') = "InvalidOperation"
                 /\ listings' = listings
                 /\ notifications' = notifications]_vars

C8_Witness ==
  /\ last.message \in {"Bid placed successfully", "Offer made successfully"}
  /\ Len(notifications) = 1
  /\ \E lid \in DOMAIN listings : Len(AllBids(listings[lid])) = 1

\* C9: a CounterBid by the owner that passes its checks appends exactly one
\* CounterEntry with round = previous length + 1 and by = seller, sets the
\* Bid's price to the countered price, its quantity to the countered quantity
\* only if one is supplied (the entry then records the current quantity), and
\* its status to countered; nothing else of the Listing changes.
C9_CounterBid ==
  [][\A a \in Users, lid \in ListingIds, b \in BidIds,
        p \in CounterPrices, q \in CounterQtys :
       ( /\ lid \in DOMAIN listings
         /\ listings[lid].userId = a
         /\ \E i \in 1..Len(AllBids(listings[lid])) :
              AllBids(listings[lid])[i].id = b
         /\ CounterBid(a, lid, b, p, q) )
       => /\ lid \in DOMAIN listings'
          /\ LET olds == AllBids(listings[lid])
                 news == AllBids(listings'[lid])
                 i == CHOOSE j \in 1..Len(olds) : olds[j].id = b
                 qty == IF q = NoQty THEN olds[i].quantity ELSE q
             IN /\ Len(news) = Len(olds)
                /\ \A j \in 1..Len(olds) : j # i => news[j] = olds[j]
                /\ news[i].counterHistory =
                     Append(olds[i].counterHistory,
                            [round |-> Len(olds[i].counterHistory) + 1,
                             by |-> "seller", price |-> p, quantity |-> qty])
                /\ news[i].price = p
                /\ news[i].quantity = qty
                /\ news[i].status = "countered"
                /\ news[i].id = olds[i].id
                /\ news[i].userId = olds[i].userId]_vars

C9_Witness ==
  /\ last.message = "Notification validation failed: bid_countered"
  /\ \E lid \in DOMAIN listings :
       \E i \in 1..Len(AllBids(listings[lid])) :
         LET bid == AllBids(listings[lid])[i]
         IN /\ bid.status = "countered"
            /\ Len(bid.counterHistory) = 2
            /\ bid.counterHistory[2].quantity = 2
            /\ bid.counterHistory[1].quantity = 1

\* C10: ChangeUsername by a user whose current username was reserved at
\* registration, to a username that is in no UsernameHistory record and is
\* no user's active username, succeeds; afterwards UsernameHistory holds a
\* 'User changed username' record for the old username, the old username is
\* in the user's stored previousUsernames, and the active username is the
\* new one.
C10_ChangeUsernameSucceeds ==
  [][\A u \in UserIds, x \in NameInputs :
       ( /\ u \in DOMAIN users
         /\ ToLower(x) # users[u].username
         /\ \E h \in history : /\ h.username = users[u].username
                               /\ h.userId = u
                               /\ h.reason = "Initial registration"
         /\ ~\E h \in history : h.username = ToLower(x)
         /\ ~\E v \in DOMAIN users : users[v].username = ToLower(x)
         /\ ChangeUsername(u, x) )
       => /\ ErrorKind(last') = "ok"
          /\ \E h \in history' : /\ h.username = users[u].username
                                 /\ h.reason = "User changed username"
          /\ users'[u].previousUsernames =
               Append(users[u].previousUsernames, users[u].username)
          /\ users'[u].username = ToLower(x)]_vars
\* C11 as stated: ChangeUsername to a username that is in some UsernameHistory
\* record fails with Conflict and leaves users and UsernameHistory unchanged.
C11_HistoryNameIsConflict ==
  [][\A u \in UserIds, x \in NameInputs :
       ( /\ u \in DOMAIN users
         /\ \E h \in history : h.username = ToLower(x)
         /\ ChangeUsername(u, x) )
       => /\ ErrorKind(last') = "Conflict"
          /\ users' = users
          /\ history' = history]_vars

\* C11 amended: ChangeUsername to a username that is in some UsernameHistory
\* record and is not the string of the requester's current username fails
\* with Conflict; a request that names the current username is a no-op that
\* succeeds; both leave users and UsernameHistory unchanged.
C11_OtherHistoryNameIsConflict ==
  [][\A u \in UserIds, x \in NameInputs :
       ( /\ u \in DOMAIN users
         /\ \E h \in history : h.username = ToLower(x)
         /\ ChangeUsername(u, x) )
       => /\ ErrorKind(last') =
               (IF x = users[u].username THEN "ok" ELSE "Conflict")
          /\ users' = users
          /\ history' = history]_vars

C11_Witness ==
  /\ last.message =
       "This username was previously used and cannot be assigned to another user"
  /\ \E h \in history : \A u \in DOMAIN users : users[u].username # h.username
\* the Bid with that id in a Listing (the claims below use it only where one
\* exists)
BidOf(l, b) ==
  AllBids(l)[CHOOSE i \in 1..Len(AllBids(l)) : AllBids(l)[i].id = b]

HasBid(l, b) == \E i \in 1..Len(AllBids(l)) : AllBids(l)[i].id = b

\* C12: when the Notification write fails during PlaceBid, AcceptBid,
\* RejectBid or CounterBid, the Listing/Bid transition of the operation stays
\* persisted (the appended Bid, the new status, price and counterHistory) and
\* no Notification is stored.
C12_NoRollback ==
  [][\A a \in Users, lid \in ListingIds, b \in BidIds :
       lid \in DOMAIN listings =>
         LET l == listings[lid] IN
         /\ \A p \in PlacePrices, q \in PlaceQtys :
              ( /\ l.userId # a
                /\ l.status = "active"
                /\ PlaceBidWith(a, lid, p, q, FALSE) )
              => /\ notifications' = notifications
                 /\ Len(AllBids(listings'[lid])) = Len(AllBids(l)) + 1
                 /\ \E i \in 1..Len(AllBids(listings'[lid])) :
                      IsFreshBid(AllBids(listings'[lid])[i], a, p, q)
         /\ (l.userId = a /\ HasBid(l, b) /\ AcceptBidWith(a, lid, b, FALSE))
              => /\ notifications' = notifications
                 /\ BidOf(listings'[lid], b).status = "accepted"
         /\ (l.userId = a /\ HasBid(l, b) /\ RejectBidWith(a, lid, b, FALSE))
              => /\ notifications' = notifications
                 /\ BidOf(listings'[lid], b).status = "rejected"
         /\ \A p \in CounterPrices :
              ( /\ l.userId = a
                /\ HasBid(l, b)
                /\ CounterBidWith(a, lid, b, p, NoQty, FALSE) )
              => /\ notifications' = notifications
                 /\ BidOf(listings'[lid], b).status = "countered"
                 /\ BidOf(listings'[lid], b).price = p
                 /\ Len(BidOf(listings'[lid], b).counterHistory)
                      = Len(BidOf(l, b).counterHistory) + 1]_vars

C12_Witness ==
  /\ last = ErrorMiddleware("MongoServerError")
  /\ notifications = <<>>
  /\ \E lid \in DOMAIN listings :
       \E i \in 1..Len(AllBids(listings[lid])) :
         AllBids(listings[lid])[i].status = "accepted"

\* C13: whenever PlaceBid, AcceptBid, RejectBid or CounterBid has persisted
\* its transition, it reports success to the caller, even if the Notification
\* write failed.
C13_NotificationFailureSwallowed ==
  [][\A a \in Users, lid \in ListingIds, b \in BidIds, w \in BOOLEAN :
       ( /\ listings' # listings
         /\ \/ \E p \in PlacePrices, q \in PlaceQtys :
                 PlaceBidWith(a, lid, p, q, w)
            \/ AcceptBidWith(a, lid, b, w)
            \/ RejectBidWith(a, lid, b, w)
            \/ \E p \in CounterPrices : CounterBidWith(a, lid, b, p, NoQty, w) )
       => ErrorKind(last') = "ok"]_vars
\* a Listing whose expiresAt the clock has passed
IsExpired(l) == now > l.expiresAt

ExpiredRefusesBids ==
  \A a \in Users, lid \in ListingIds, p \in PlacePrices, q \in PlaceQtys :
    ( /\ lid \in DOMAIN listings
      /\ IsExpired(listings[lid])
      /\ PlaceBid(a, lid, p, q) )
    => /\ ErrorKind(last') = "InvalidOperation"
       /\ listings' = listings

ExpiredHiddenFromMarketplace ==
  \A a \in Users \cup {Anonymous}, s \in SortInputs :
    GetListings(a, s)
    => \A k \in 1..Len(last'.data) : ~IsExpired(listings[last'.data[k]])

\* C14: once the clock has passed a Listing's expiresAt, PlaceBid on it fails
\* as inactive and appends no Bid, whatever its stored status, and the
\* marketplace query does not return it.
C14_ExpiryOnEveryReadPath ==
  [][ExpiredRefusesBids /\ ExpiredHiddenFromMarketplace]_vars
\* C15: every successful BoostListing by the owner leaves isBoosted true and
\* boostExpiresAt at the time of that call plus 24 hours, whatever the window
\* was before (windows do not accumulate); between such calls the two fields
\* do not change.
C15_BoostResetsWindow ==
  [][\A lid \in DOMAIN listings \cap DOMAIN listings' :
       IF BoostListing(listings[lid].userId, lid)
         THEN /\ ErrorKind(last') = "ok"
              /\ listings'[lid].isBoosted
              /\ listings'[lid].boostExpiresAt = now + 24
         ELSE /\ listings'[lid].isBoosted = listings[lid].isBoosted
              /\ listings'[lid].boostExpiresAt = listings[lid].boostExpiresAt]_vars

C15_Witness ==
  /\ last.message = "Listing boosted successfully for 24 hours"
  /\ now = 2
  /\ \E lid \in DOMAIN listings :
       /\ listings[lid].isBoosted
       /\ listings[lid].boostExpiresAt = 26
       /\ listings[lid].expiresAt = ListingTTL
\* C16: every CounterBid by the owner on an existing Bid creates one
\* Notification of type counter_offer for the Bid's bidder that carries the
\* countered price, the quantity and the round number.
C16_CounterOfferNotification ==
  [][\A a \in Users, lid \in ListingIds, b \in BidIds,
        p \in CounterPrices, q \in CounterQtys :
       ( /\ lid \in DOMAIN listings
         /\ listings[lid].userId = a
         /\ HasBid(listings[lid], b)
         /\ CounterBid(a, lid, b, p, q) )
       => /\ Len(notifications') = Len(notifications) + 1
          /\ SubSeq(notifications', 1, Len(notifications)) = notifications
          /\ LET n == notifications'[Len(notifications')]
                 old == BidOf(listings[lid], b)
             IN /\ n.type = "counter_offer"
                /\ n.userId = old.userId
                /\ n.amount = p
                /\ n.quantity = (IF q = NoQty THEN old.quantity ELSE q)
                /\ "round" \in DOMAIN n
                /\ n.round = Len(old.counterHistory) + 1]_vars
\* the Notification a step has appended
Emitted == notifications'[Len(notifications')]

\* C17: the Notification AcceptBid emits to the bidder has type bid_accepted
\* on a sell Listing and offer_accepted on a buy Listing; the one RejectBid
\* emits has type bid_rejected on a sell and offer_rejected on a buy Listing.
C17_OutcomeNotificationTypes ==
  [][\A a \in Users, lid \in ListingIds, b \in BidIds :
       ( /\ lid \in DOMAIN listings
         /\ listings[lid].userId = a
         /\ HasBid(listings[lid], b) )
       => LET sell == listings[lid].type = "sell"
              bidder == BidOf(listings[lid], b).userId
          IN /\ AcceptBid(a, lid, b)
                  => /\ Len(notifications') = Len(notifications) + 1
                     /\ Emitted.userId = bidder
                     /\ Emitted.type = IF sell THEN "bid_accepted"
                                       ELSE "offer_accepted"
             /\ RejectBid(a, lid, b)
                  => /\ Len(notifications') = Len(notifications) + 1
                     /\ Emitted.userId = bidder
                     /\ Emitted.type = IF sell THEN "bid_rejected"
                                       ELSE "offer_rejected"]_vars
\* the distinct bidders/offerers of a Listing
Bidders(l) == {AllBids(l)[i].userId : i \in 1..Len(AllBids(l))}

\* C18: DeleteListing by the owner on a Listing without an accepted Bid
\* succeeds, with or without bids or offers: it appends exactly one
\* listing_cancelled Notification for each distinct bidder/offerer and
\* removes the Listing.
C18_DeleteNotifiesEachBidder ==
  [][\A a \in Users, lid \in ListingIds :
       ( /\ lid \in DOMAIN listings
         /\ listings[lid].userId = a
         /\ ~AnyAccepted(listings[lid])
         /\ DeleteListing(a, lid) )
       => LET who == Bidders(listings[lid])
              old == Len(notifications)
          IN /\ ErrorKind(last') = "ok"
             /\ lid \notin DOMAIN listings'
             /\ Len(notifications') = old + Cardinality(who)
             /\ SubSeq(notifications', 1, old) = notifications
             /\ \A k \in old + 1..Len(notifications') :
                  notifications'[k].type = "listing_cancelled"
             /\ {notifications'[k].userId : k \in old + 1..Len(notifications')}
                  = who]_vars
AcceptedTypes == {"bid_accepted", "offer_accepted"}

RejectedTypes == {"bid_rejected", "offer_rejected"}

\* C19: for any one Bid, the stored Notifications never hold an accepted
\* outcome together with a rejected outcome, nor two accepted outcomes.
C19_NoContradictoryOutcomes ==
  \A i, j \in 1..Len(notifications) :
    ( /\ i # j
      /\ notifications[i].listingId = notifications[j].listingId
      /\ notifications[i].bidId = notifications[j].bidId
      /\ notifications[i].type \in AcceptedTypes )
    => notifications[j].type \notin AcceptedTypes \cup RejectedTypes
\* C20: CheckUsernameAvailability(candidate) answers available = false
\* exactly when the lowercased candidate is some user's active username or
\* the username of some UsernameHistory record, and changes neither users nor
\* UsernameHistory.
C20_CheckUsernameAvailability ==
  [][\A a \in Users, x \in NameInputs :
       CheckUsername(a, x)
       => /\ ErrorKind(last') = "ok"
          /\ last'.available = FALSE
               <=> \/ \E u \in DOMAIN users : users[u].username = ToLower(x)
                   \/ \E h \in history : h.username = ToLower(x)
          /\ users' = users
          /\ history' = history]_vars

C20_Witness ==
  /\ "available" \in DOMAIN last
  /\ ~last.available
  /\ last.currentlyUsedBy = NoUser
  /\ last.previouslyUsedBy # NoUser
\* C21: every step that changes a Listing's status from a non-active value
\* to active leaves the Listing with an expiresAt later than the time of the
\* step.
C21_ReactivationRefreshesExpiry ==
  [][\A lid \in DOMAIN listings \cap DOMAIN listings' :
       (listings[lid].status # "active" /\ listings'[lid].status = "active")
       => listings'[lid].expiresAt > now]_vars
\* C22: every username a registration or a username change gives a user is,
\* after that step, in a UsernameHistory record linked to that user (so after
\* a successful change the new username is in UsernameHistory as well as the
\* old one).
C22_EveryUsernameInHistory ==
  [][\A u \in DOMAIN users' :
       ( /\ u \notin DOMAIN users \/ users'[u].username # users[u].username
         /\ \/ \E x \in NameInputs : Register(x)
            \/ \E x \in NameInputs : ChangeUsername(u, x) )
       => \E h \in history' : /\ h.username = users'[u].username
                              /\ h.userId = u]_vars
\* a Listing without its bids and offers
Shell(l) == [l EXCEPT !.bids = <<>>, !.offers = <<>>]

\* arr with the status of Bid b set, every other Bid and field as it was
WithStatus(arr, b, status) ==
  [k \in 1..Len(arr) |->
     IF arr[k].id = b THEN [arr[k] EXCEPT !.status = status] ELSE arr[k]]

\* C23: a successful AcceptBid changes only the status of the addressed Bid:
\* every sibling Bid and the Listing's own fields (status, price, quantity,
\* expiresAt, ...) are as before.
C23_AcceptFrame ==
  [][\A a \in Users, lid \in ListingIds, b \in BidIds :
       ( /\ lid \in DOMAIN listings
         /\ listings[lid].userId = a
         /\ HasBid(listings[lid], b)
         /\ AcceptBid(a, lid, b) )
       => /\ ErrorKind(last') = "ok"
          /\ DOMAIN listings' = DOMAIN listings
          /\ \A k \in DOMAIN listings \ {lid} : listings'[k] = listings[k]
          /\ Shell(listings'[lid]) = Shell(listings[lid])
          /\ listings'[lid].bids = WithStatus(listings[lid].bids, b, "accepted")
          /\ listings'[lid].offers =
               WithStatus(listings[lid].offers, b, "accepted")]_vars

C23_Witness ==
  /\ last.message = "Bid accepted successfully"
  /\ \E lid \in DOMAIN listings :
       /\ listings[lid].status = "active"
       /\ Len(AllBids(listings[lid])) = 2
       /\ \E i, j \in 1..2 :
            /\ AllBids(listings[lid])[i].status = "accepted"
            /\ AllBids(listings[lid])[j].status = "pending"
\* C24: in every reachable state no Bid of a Listing was placed by the
\* Listing's owner, and no step changes the owner of a Listing.
C24_BidderIsNotOwner ==
  /\ [](\A lid \in DOMAIN listings :
          \A i \in 1..Len(AllBids(listings[lid])) :
            AllBids(listings[lid])[i].userId # listings[lid].userId)
  /\ [][\A lid \in DOMAIN listings \cap DOMAIN listings' :
          listings'[lid].userId = listings[lid].userId]_vars

C24_Witness ==
  \E lid \in DOMAIN listings :
    /\ Len(AllBids(listings[lid])) = 2
    /\ listings[lid].isBoosted
    /\ listings[lid].price = 2
    /\ \E i \in 1..2 : AllBids(listings[lid])[i].status = "countered"
    /\ \E i \in 1..2 : AllBids(listings[lid])[i].status = "rejected"
\* C25: in every reachable state the status of every Listing is one of
\* active, sold, expired, cancelled, whatever status value was passed to the
\* operations that set it.
C25_StatusInEnum ==
  \A lid \in DOMAIN listings : listings[lid].status \in ListingStatuses
\* C26: Registration and ChangeUsername are all-or-nothing: a step of either
\* operation that ends in an error creates or renames no User and adds no
\* UsernameHistory record.
C26_ErrorLeavesStoresUntouched ==
  [][( /\ \/ \E x \in NameInputs : Register(x)
          \/ \E u \in UserIds, x \in NameInputs \cup {NoName} : ChangeUsername(u, x)
       /\ ErrorKind(last') # "ok" )
     => /\ users' = users
        /\ history' = history]_vars
\* C27: once every overlapping CreateListing request has answered, the
\* totalListings of each Company has grown by one per request, that is, it
\* equals the number of Listings created for the Company.
C27_NoLostIncrement ==
  (\A r \in Requests : requests[r].pc \notin {"create:found", "create:inserted"})
  => \A c \in Companies :
       companies[c].totalListings =
         Cardinality({lid \in DOMAIN listings : listings[lid].companyId = c})

\* C28: when two CounterBid requests of the owner on one Bid both loaded the
\* Listing before either saved and both have completed, the Bid's
\* counterHistory holds the entries of both with rounds 1, 2, ... without a
\* gap, and the Bid's price is the price of the entry with the highest round.
C28_ConcurrentCountersBothRecorded ==
  \A r1, r2 \in Requests :
    ( /\ r1 # r2
      /\ requests[r1].pc = "counter:done"
      /\ requests[r2].pc = "counter:done"
      /\ requests[r1].lid = requests[r2].lid
      /\ requests[r1].bidId = requests[r2].bidId
      /\ Version(requests[r1].doc) = Version(requests[r2].doc) )
    => LET bid == BidOf(listings[requests[r1].lid], requests[r1].bidId)
           base == Len(BidOf(requests[r1].doc, requests[r1].bidId).counterHistory)
           n == Len(bid.counterHistory)
       IN /\ n = base + 2
          /\ \A k \in 1..n : bid.counterHistory[k].round = k
          /\ bid.price = bid.counterHistory[n].price
\* C29: the marketplace query places a Listing whose boostExpiresAt the clock
\* has passed ahead of a non-boosted Listing only where the requested sort
\* alone does not place it behind: the expired boost gives no precedence.
C29_ExpiredBoostGivesNoPrecedence ==
  [][\A a \in Users \cup {Anonymous}, s \in SortInputs :
       GetListings(a, s)
       => \A i, j \in 1..Len(last'.data) :
            LET x == listings[last'.data[i]]
                y == listings[last'.data[j]]
            IN ( /\ i < j
                 /\ x.isBoosted
                 /\ now > x.boostExpiresAt
                 /\ ~y.isBoosted )
               => SortKey(x, s) <= SortKey(y, s)]_vars
\* C30: in every reachable state, for every Bid: status pending implies an
\* empty counterHistory, status countered implies a non-empty counterHistory,
\* and a Bid with a non-empty counterHistory has the price and the quantity
\* of its last CounterEntry.
C30_BidMatchesItsHistory ==
  \A lid \in DOMAIN listings :
    \A i \in 1..Len(AllBids(listings[lid])) :
      LET bid == AllBids(listings[lid])[i]
          n == Len(bid.counterHistory)
      IN /\ bid.status = "pending" => n = 0
         /\ bid.status = "countered" => n > 0
         /\ n > 0 => /\ bid.price = bid.counterHistory[n].price
                     /\ bid.quantity = bid.counterHistory[n].quantity

C30_Witness ==
  \E lid \in DOMAIN listings :
    \E i \in 1..Len(AllBids(listings[lid])) :
      LET bid == AllBids(listings[lid])[i]
      IN /\ Len(bid.counterHistory) = 2
         /\ bid.counterHistory[1].quantity = 1
         /\ bid.counterHistory[2].quantity = 2
         /\ bid.quantity = 2
         /\ bid.status = "accepted"
====
